---- MODULE Spec2Model ----
(***************************************************************************)
(* Model of the ebook generation pipeline of geminiChapter.py: the        *)
(* session state and the stage handlers of the Streamlit script, the file *)
(* upload fallback chain and the streaming client of the generation        *)
(* service.                                                                *)
(*                                                                         *)
(* Python strings are sequences of tokens (a token is one character, or a *)
(* fixed multi-character piece such as "https://" that no operation of    *)
(* the program splits).  Python values that travel through JSON are       *)
(* records [ty, s, items]: ty is "none", "str", "dict" or "list"; a dict  *)
(* keeps its items in insertion order, as Python does.                    *)
(***************************************************************************)
EXTENDS Integers, Sequences, FiniteSets, TLC

\* ------------------------------------------------------------------ bounds
\* Longest event stream (in lines) the streaming client is checked on.
MaxStreamLen == 3
\* Largest number of chapter descriptors in a skeleton where the chapter
\* generation is checked (SpecChapters).
MaxChapters == 2
\* Largest number of chapter descriptors in a skeleton where all five stages
\* are checked together (Spec).
MaxTopics == 1
\* The chapters of the longest book that is assembled.
MaxBook == 10

\* ------------------------------------------------------------- Python text
Whitespace == {" ", "\t", "\n"}

RECURSIVE lstrip(_)
lstrip(s) == IF s # << >> /\ Head(s) \in Whitespace THEN lstrip(Tail(s)) ELSE s

RECURSIVE rstrip(_)
rstrip(s) ==
    IF s # << >> /\ s[Len(s)] \in Whitespace THEN rstrip(SubSeq(s, 1, Len(s) - 1)) ELSE s

\* str.strip(): leading and trailing whitespace removed.
strip(s) == rstrip(lstrip(s))

\* str.startswith(p) for one prefix p.
startswith(s, p) == Len(s) >= Len(p) /\ SubSeq(s, 1, Len(p)) = p

\* str.replace(old, new): every non-overlapping occurrence, left to right.
RECURSIVE replace(_, _, _)
replace(s, old, new) ==
    IF s = << >> THEN << >>
    ELSE IF old # << >> /\ startswith(s, old)
         THEN new \o replace(SubSeq(s, Len(old) + 1, Len(s)), old, new)
         ELSE <<Head(s)>> \o replace(Tail(s), old, new)

\* ----------------------------------------------------------- Python values
JNone == [ty |-> "none", s |-> << >>, items |-> << >>]
JStr(t) == [ty |-> "str", s |-> t, items |-> << >>]
JDict(kvs) == [ty |-> "dict", s |-> << >>, items |-> kvs]
JList(xs) == [ty |-> "list", s |-> << >>, items |-> xs]
\* An int n >= 0, kept as its decimal digits.
JNum(digits) == [ty |-> "num", s |-> digits, items |-> << >>]
KV(key, val) == [k |-> key, v |-> val]
\* A string of one token.
T(x) == JStr(<<x>>)

IsNone(x) == x.ty = "none"
IsStr(x) == x.ty = "str"
IsDict(x) == x.ty = "dict"
IsList(x) == x.ty = "list"

\* bool(x): None, "", 0, {} and [] are false.
Truthy(x) ==
    CASE x.ty = "none" -> FALSE
      [] x.ty = "str" -> x.s # << >>
      [] x.ty = "num" -> x.s # <<"0">>
      [] OTHER -> x.items # << >>

\* key in d, for a dict d.
HasKey(d, key) == \E i \in 1..Len(d.items) : d.items[i].k = key

\* d.get(key, default), for a dict d.
Get(d, key, default) ==
    IF HasKey(d, key)
    THEN d.items[CHOOSE i \in 1..Len(d.items) : d.items[i].k = key].v
    ELSE default

\* d with d[key] = val: an existing key keeps its place, a new one goes last.
Put(d, key, val) ==
    IF HasKey(d, key)
    THEN JDict([i \in 1..Len(d.items) |->
                   IF d.items[i].k = key THEN KV(key, val) ELSE d.items[i]])
    ELSE JDict(Append(d.items, KV(key, val)))

\* ------------------------------------------------------ file upload helpers
\* What a backend answers when it is asked: exc is TRUE when requests.post
\* raises (connection error, timeout); otherwise status, text and, for a
\* JSON body, json (JNone when the body is not JSON).
Reply(exc, status, text, json) ==
    [exc |-> exc, status |-> status, text |-> text, json |-> json]

HttpsScheme == <<"https://">>

upload_to_0x0(r) ==
    IF r.exc THEN JNone
    ELSE IF r.status = 200 /\ startswith(strip(r.text), HttpsScheme)
         THEN JStr(strip(r.text))
         ELSE JNone

\* A catbox upload that takes any 200 response for a success: what C34
\* rules out.
catbox_any_200(r) ==
    IF r.exc THEN JNone
    ELSE IF r.status = 200 THEN JStr(strip(r.text)) ELSE JNone

upload_to_catbox(r) ==
    IF r.exc THEN JNone
    ELSE IF r.status = 200 /\ startswith(strip(r.text), HttpsScheme)
         THEN JStr(strip(r.text))
         ELSE JNone

upload_to_tmpfiles(r) ==
    IF r.exc THEN JNone
    ELSE IF r.status # 200 THEN JNone
    \* response.json() raises on a body that is not JSON; data.get raises on
    \* a body that is no object: both are caught and the service returns None.
    ELSE IF ~IsDict(r.json) THEN JNone
    ELSE IF ~IsDict(Get(r.json, "data", JDict(<< >>))) THEN JNone
    ELSE LET url == Get(Get(r.json, "data", JDict(<< >>)), "url", JStr(<< >>))
         IN  IF ~Truthy(url) THEN JNone
             ELSE IF ~IsStr(url) THEN JNone
             ELSE JStr(replace(url.s, <<"https://", "tmpfiles.org/">>,
                               <<"https://", "tmpfiles.org/", "dl/">>))

\* A list of the services with the last two exchanged: the order C2 rules
\* out.
services_catbox_last == <<"upload_to_0x0", "upload_to_tmpfiles", "upload_to_catbox">>

services == <<"upload_to_0x0", "upload_to_catbox", "upload_to_tmpfiles">>

CallService(name, r) ==
    CASE name = "upload_to_0x0" -> upload_to_0x0(r)
      [] name = "upload_to_catbox" -> upload_to_catbox(r)
      [] name = "upload_to_tmpfiles" -> upload_to_tmpfiles(r)

\* The loop of upload_file_with_fallback from service i on; invoked is the
\* list of the services called so far.
RECURSIVE FallbackFrom(_, _, _)
FallbackFrom(i, replies, invoked) ==
    IF i > Len(services) THEN [url |-> JNone, invoked |-> invoked]
    ELSE LET url == CallService(services[i], replies[services[i]])
         IN  IF Truthy(url)
             THEN [url |-> url, invoked |-> Append(invoked, services[i])]
             ELSE FallbackFrom(i + 1, replies, Append(invoked, services[i]))

\* replies[name] is the answer the backend of service name gives if asked.
upload_file_with_fallback(replies) == FallbackFrom(1, replies, << >>)

\* ------------------------------------------------- API caller & streaming
\* One line of the response body as response.iter_lines() yields it:
\* "empty" (a blank line), "text" (text that is no JSON document), "bytes"
\* (bytes that are no UTF-8 text) or "json" with the document json.loads
\* returns.
EmptyLine == [kind |-> "empty", content |-> JNone]
TextLine == [kind |-> "text", content |-> JNone]
BytesLine == [kind |-> "bytes", content |-> JNone]
JsonLine(doc) == [kind |-> "json", content |-> doc]

\* The event {"value": {"type": type, key: payload}}.
Event(type, key, payload) ==
    JsonLine(JDict(<<KV("value", JDict(<<KV("type", JStr(<<type>>)), KV(key, payload)>>))>>))
ChunkEvent(text) == Event("chunk", "value", text)
OutputsEvent(values) == Event("outputs", "values", values)

\* State of the generator: the chunks yielded so far, the last outputs
\* event seen (JNone before the first) and the exception that ended it.
GenStart == [chunks |-> << >>, final_output |-> JNone, raised |-> ""]

\* A generator that hands x to the consumer before what it has received:
\* the order of delivery C3 rules out.
YieldFirst(g, x) == [g EXCEPT !.chunks = <<x>> \o @]

\* yield x: the consumer of the generator receives x after what it has
\* received so far.
Yield(g, x) == [g EXCEPT !.chunks = Append(@, x)]

\* A generator that keeps the first outputs event it saw: the choice C22
\* rules out.
KeepFirstOutput(g, value) ==
    IF g.final_output = JNone THEN [g EXCEPT !.final_output = value] ELSE g

\* final_output = value (line 194).
SetFinalOutput(g, value) == [g EXCEPT !.final_output = value]

\* The body of the for loop of stream_generator on one line.
GenLine(g, line) ==
    IF line.kind = "empty" THEN g
    ELSE IF line.kind = "text" THEN g    \* json.JSONDecodeError: warned, skipped
    \* line.decode('utf-8') raises, and UnicodeDecodeError is no JSONDecodeError
    ELSE IF line.kind = "bytes" THEN [g EXCEPT !.raised = "UnicodeDecodeError"]
    ELSE IF ~IsDict(line.content) THEN [g EXCEPT !.raised = "AttributeError"]
    ELSE LET value == Get(line.content, "value", JDict(<< >>))
         IN  IF ~IsDict(value) THEN [g EXCEPT !.raised = "AttributeError"]
             ELSE IF Get(value, "type", JNone) = JStr(<<"chunk">>)
                  THEN Yield(g, Get(value, "value", JStr(<< >>)))
             ELSE IF Get(value, "type", JNone) = JStr(<<"outputs">>)
                  THEN SetFinalOutput(g, value)
             ELSE g

RECURSIVE GenFrom(_, _, _)
GenFrom(lines, i, g) ==
    IF i > Len(lines) \/ g.raised # "" THEN g
    ELSE GenFrom(lines, i + 1, GenLine(g, lines[i]))

\* The generator run to the end of the stream (or to the exception).
stream_generator(lines) == GenFrom(lines, 1, GenStart)

\* x in s for a string s: s holds the tokens of x in a row.
Contains(s, x) == \E i \in 0..(Len(s) - Len(x)) : SubSeq(s, i + 1, i + Len(x)) = x

\* key in c for the container c the code tests ('output' in output_data).
InContainer(c, key) ==
    CASE IsDict(c) -> HasKey(c, key)
      [] IsList(c) -> \E i \in 1..Len(c.items) : c.items[i] = JStr(<<key>>)
      [] IsStr(c) -> Contains(c.s, <<key>>)
      [] OTHER -> FALSE

\* An extraction that prefers the key text to the key output: the priority
\* C4 rules out.
ExtractTextFirst(final_output) ==
    IF ~Truthy(final_output) THEN [ret |-> JNone, raised |-> ""]
    ELSE LET output_data == Get(final_output, "values", JDict(<< >>))
         IN  IF ~IsDict(output_data) THEN [ret |-> JNone, raised |-> "TypeError"]
             ELSE IF HasKey(output_data, "text")
                  THEN [ret |-> Get(output_data, "text", JNone), raised |-> ""]
             ELSE IF HasKey(output_data, "output")
                  THEN [ret |-> Get(output_data, "output", JNone), raised |-> ""]
             ELSE IF Truthy(output_data) THEN [ret |-> output_data, raised |-> ""]
             ELSE [ret |-> JNone, raised |-> ""]

\* Lines 204-229: the value returned once the stream is drained.
ExtractOutput(final_output) ==
    IF ~Truthy(final_output) THEN [ret |-> JNone, raised |-> ""]
    ELSE LET output_data == Get(final_output, "values", JDict(<< >>))
         IN  IF IsNone(output_data) THEN [ret |-> JNone, raised |-> "TypeError"]
             ELSE IF InContainer(output_data, "output")
                  THEN IF IsDict(output_data)
                       THEN [ret |-> Get(output_data, "output", JNone), raised |-> ""]
                       ELSE [ret |-> JNone, raised |-> "TypeError"]
             ELSE IF InContainer(output_data, "text")
                  THEN IF IsDict(output_data)
                       THEN [ret |-> Get(output_data, "text", JNone), raised |-> ""]
                       ELSE [ret |-> JNone, raised |-> "TypeError"]
             ELSE IF Truthy(output_data) THEN [ret |-> output_data, raised |-> ""]
             ELSE [ret |-> JNone, raised |-> ""]

\* A caller that, given no sink, stops reading after the first line: the
\* behaviour C25 rules out.
ReadFirstLineOnly(lines, has_sink) ==
    IF has_sink THEN stream_generator(lines)
    ELSE stream_generator(SubSeq(lines, 1, IF Len(lines) > 0 THEN 1 ELSE 0))

\* Lines 198-203: the generator is consumed by write_stream of the
\* container, or by the loop "for _ in stream_generator(): pass".
ConsumeStream(lines, has_sink) ==
    IF has_sink THEN stream_generator(lines) ELSE stream_generator(lines)

\* A request as the service answers it.  transport is
\*   "ok"          a 2xx response whose body is read to its end,
\*   "http_error"  a response with a non-2xx status (raise_for_status raises),
\*   "no_response" requests.post raises (connection error, timeout): the
\*                 name response is never bound,
\*   "stream_lost" a 2xx response whose body breaks off after lines.
Request(transport, lines) == [transport |-> transport, lines |-> lines]

\* process_wordware_api(app_id, inputs, stream_container): ret is the value
\* returned (JNone for None), raised the exception that leaves the function
\* ("" when it returns), delivered the chunks written to stream_container.
process_wordware_api(req, has_sink) ==
    IF req.transport = "no_response"
    \* except RequestException: response.json() raises UnboundLocalError, the
    \* bare except catches it, and response.text raises it again.
    THEN [ret |-> JNone, raised |-> "UnboundLocalError", delivered |-> << >>]
    ELSE IF req.transport = "http_error"
    THEN [ret |-> JNone, raised |-> "", delivered |-> << >>]
    ELSE LET g == ConsumeStream(req.lines, has_sink)
             sunk == IF has_sink THEN g.chunks ELSE << >>
         IN  IF g.raised # ""
             THEN [ret |-> JNone, raised |-> g.raised, delivered |-> sunk]
             ELSE IF req.transport = "stream_lost"
             THEN [ret |-> JNone, raised |-> "", delivered |-> sunk]
             ELSE [ret |-> ExtractOutput(g.final_output).ret,
                   raised |-> ExtractOutput(g.final_output).raised,
                   delivered |-> sunk]

\* ------------------------------------------------ session state management
\* The spelling of every key of st.session_state the script uses, as
\* tokens: the pieces between underscores and the underscores themselves
\* ("chapters" is "chapter" followed by "s", so that whether a key starts
\* with 'chapter_' is decided by startswith and not by this table).
KeyName ==
    [current_stage |-> <<"current", "_", "stage">>,
     stage_1_status |-> <<"stage", "_", "1", "_", "status">>,
     stage_2_status |-> <<"stage", "_", "2", "_", "status">>,
     stage_3_status |-> <<"stage", "_", "3", "_", "status">>,
     stage_4_status |-> <<"stage", "_", "4", "_", "status">>,
     stage_5_status |-> <<"stage", "_", "5", "_", "status">>,
     stage_2_1_status |-> <<"stage", "_", "2", "_", "1", "_", "status">>,
     stage_2_2_status |-> <<"stage", "_", "2", "_", "2", "_", "status">>,
     stage_2_3_status |-> <<"stage", "_", "2", "_", "3", "_", "status">>,
     stage_2_4_status |-> <<"stage", "_", "2", "_", "4", "_", "status">>,
     compendio_md |-> <<"compendio", "_", "md">>,
     project_brief_md |-> <<"project", "_", "brief", "_", "md">>,
     mapping_combined |-> <<"mapping", "_", "combined">>,
     skeleton |-> <<"skeleton">>,
     generated_chapters |-> <<"generated", "_", "chapter", "s">>,
     final_ebook |-> <<"final", "_", "ebook">>,
     topic_input |-> <<"topic", "_", "input">>,
     reference_count |-> <<"reference", "_", "count">>,
     page_count |-> <<"page", "_", "count">>,
     subtemas_enabled |-> <<"subtemas", "_", "enabled">>,
     uploaded_files |-> <<"uploaded", "_", "files">>,
     stage_1_1_output |-> <<"stage", "_", "1", "_", "1", "_", "output">>,
     stage_1_2_output |-> <<"stage", "_", "1", "_", "2", "_", "output">>,
     mapping_referencias |-> <<"mapping", "_", "referencias">>,
     mapping_citas |-> <<"mapping", "_", "citas">>,
     mapping_tablas |-> <<"mapping", "_", "tablas">>,
     chapter_sequence |-> <<"chapter", "_", "sequence">>,
     current_chapter_index |-> <<"current", "_", "chapter", "_", "index">>,
     previous_context |-> <<"previous", "_", "context">>,
     chapters_completed |-> <<"chapter", "s", "_", "completed">>,
     book_complete |-> <<"book", "_", "complete">>,
     edit_modes |-> <<"edit", "_", "modes">>]

\* The prefixes without 'stage_': a reset that keeps the statuses, which C9
\* rules out.
prefixes_without_stage ==
    {<<"compendio", "_">>, <<"project", "_">>, <<"mapping", "_">>, <<"skeleton">>,
     <<"generated", "_">>, <<"final", "_">>, <<"topic", "_">>, <<"reference", "_">>,
     <<"page", "_">>, <<"subtemas", "_">>, <<"uploaded", "_">>, <<"chapter", "_">>,
     <<"current", "_">>, <<"previous", "_">>, <<"book", "_">>}

\* The prefixes clear_all_session_data deletes.
clear_prefixes ==
    {<<"stage", "_">>,
     <<"compendio", "_">>,
     <<"project", "_">>,
     <<"mapping", "_">>,
     <<"skeleton">>,
     <<"generated", "_">>,
     <<"final", "_">>,
     <<"topic", "_">>,
     <<"reference", "_">>,
     <<"page", "_">>,
     <<"subtemas", "_">>,
     <<"uploaded", "_">>,
     <<"chapter", "_">>,
     <<"current", "_">>,
     <<"previous", "_">>,
     <<"book", "_">>}

\* key.startswith(prefixes), the test of the comprehension of line 97.
IsCleared(key) == \E p \in clear_prefixes : startswith(KeyName[key], p)

\* The defaults of initialize_session_state.  edit_modes is no key of the
\* defaults: render_stage_4 creates it, empty, when it is missing.
defaults ==
    [current_stage |-> 1,
     stage_1_status |-> "pending", stage_2_status |-> "pending",
     stage_3_status |-> "pending", stage_4_status |-> "pending",
     stage_5_status |-> "pending",
     stage_2_1_status |-> "pending", stage_2_2_status |-> "pending",
     stage_2_3_status |-> "pending", stage_2_4_status |-> "pending",
     compendio_md |-> JStr(<< >>), project_brief_md |-> JStr(<< >>),
     mapping_combined |-> JStr(<< >>),
     skeleton |-> JDict(<< >>), generated_chapters |-> JDict(<< >>),
     final_ebook |-> JStr(<< >>),
     topic_input |-> JStr(<< >>), reference_count |-> 25,
     page_count |-> JStr(<<"40-50">>), subtemas_enabled |-> FALSE,
     uploaded_files |-> JDict(<< >>),
     stage_1_1_output |-> JStr(<< >>), stage_1_2_output |-> JStr(<< >>),
     mapping_referencias |-> JStr(<< >>), mapping_citas |-> JStr(<< >>),
     mapping_tablas |-> JStr(<< >>),
     chapter_sequence |-> << >>, current_chapter_index |-> 0,
     previous_context |-> JStr(<< >>),
     chapters_completed |-> << >>, book_complete |-> FALSE]

\* The session state of a new session: initialize_session_state on an empty
\* st.session_state (edit_modes, not yet created, reads as the empty dict).
NewSession == [k \in DOMAIN KeyName |-> IF k = "edit_modes" THEN {} ELSE defaults[k]]

\* initialize_session_state on a session state in which the keys of the set
\* missing are absent: they get their defaults, the other keys are kept.
initialize_session_state(s, missing) ==
    [k \in DOMAIN s |-> IF k \in missing /\ k \in DOMAIN defaults THEN defaults[k] ELSE s[k]]

\* clear_all_session_data, with the script run that st.rerun() starts: the
\* cleared keys are deleted and initialize_session_state sets them again.
\* The keys among those the script uses that start with one of the prefixes.
ClearedKeys == {k \in DOMAIN KeyName : IsCleared(k)}

keys_to_clear(s) == DOMAIN s \cap ClearedKeys

clear_all_session_data(s) == initialize_session_state(s, keys_to_clear(s))

\* ------------------------------------------------------------------ state
VARIABLES
    ss,         \* st.session_state
    ui,         \* the page as the last script run rendered it
    pc,         \* where the running script run is blocked ("idle": none runs)
    inflight,   \* the calls of the generation service that are submitted
    obs,        \* what the chapter_creator calls sent and returned (history)
    up_in,      \* upload_file_with_fallback alone: the backends' answers
    up_out,     \*   and its result
    api_in,     \* process_wordware_api alone: the request and the sink
    api_out     \*   and its result

vars == <<ss, ui, pc, inflight, obs, up_in, up_out, api_in, api_out>>
pipeline_vars == <<ss, ui, pc, inflight, obs>>
function_vars == <<up_in, up_out, api_in, api_out>>

NotCalled == [called |-> FALSE]

\* ------------------------------------------------------ rendering the page
\* The disabled flags of the stage buttons of render_sidebar, by stage.
SidebarOf(s) ==
    [i \in 2..5 |->
        CASE i = 2 -> s.stage_1_status # "completed"
          [] i = 3 -> s.stage_2_status # "completed"
          [] i = 4 -> s.stage_3_status # "completed"
          [] i = 5 -> ~s.book_complete]

\* seq[i] of Python, i from 0, negative i counted from the end;
\* InRange is FALSE where Python raises IndexError.
InRange(seq, i) == -Len(seq) <= i /\ i < Len(seq)
\* A selection that takes the last entry whatever the index: the skip C29
\* rules out.
LastEntry(seq, i) == seq[Len(seq)]
PyIndex(seq, i) == IF i >= 0 THEN seq[i + 1] ELSE seq[Len(seq) + i + 1]

\* Lines 1079-1085: stored chapters that still hold the whole answer are
\* replaced by their chapterTitle object.
FixStored(data) ==
    IF InContainer(data, "generatedChapter") /\ IsDict(data)
       /\ IsDict(Get(data, "generatedChapter", JDict(<< >>)))
       /\ Truthy(Get(Get(data, "generatedChapter", JDict(<< >>)), "chapterTitle", JDict(<< >>)))
    THEN Get(Get(data, "generatedChapter", JDict(<< >>)), "chapterTitle", JDict(<< >>))
    ELSE data

FixChapters(chapters) ==
    JDict([i \in 1..Len(chapters.items) |->
              KV(chapters.items[i].k, FixStored(chapters.items[i].v))])

\* st.progress raises on a value above 1.0.
ProgressOk(s) == Len(s.chapters_completed) <= Len(s.chapter_sequence)

\* A page that offers the Generate button on a complete book too: what
\* C30 rules out.
GenerateShownWhenComplete(s) ==
    /\ s.current_stage = 4
    /\ s.chapter_sequence # << >>
    /\ ProgressOk(s)
    /\ InRange(s.chapter_sequence, s.current_chapter_index)

\* render_stage_4 reaches the Generate button (lines 1074-1096).
GenerateShown(s) ==
    /\ s.current_stage = 4
    /\ s.chapter_sequence # << >>
    /\ ProgressOk(s)
    /\ ~s.book_complete
    /\ InRange(s.chapter_sequence, s.current_chapter_index)

\* render_stage_4 reaches the review of the generated chapters (line 1141).
ReviewShown(s) ==
    /\ s.current_stage = 4
    /\ s.chapter_sequence # << >>
    /\ ProgressOk(s)
    /\ (s.book_complete \/ InRange(s.chapter_sequence, s.current_chapter_index))
    /\ Truthy(s.generated_chapters)

\* The session state once the script has rendered the current page.
Rendered(s) ==
    IF s.current_stage = 4 /\ s.chapter_sequence # << >>
    THEN [s EXCEPT !.generated_chapters = FixChapters(@)]
    ELSE s

\* The page a script run that handles no click leaves on the screen.
View(s) == [disabled |-> SidebarOf(s), review |-> ReviewShown(s)]

\* The page a script run leaves that ends inside a handler (a return or an
\* exception, no st.rerun()): the sidebar as it was rendered before the
\* handler ran, and nothing of what the page renders after the handler.
Stale(s) == [disabled |-> SidebarOf(s), review |-> FALSE]

NoObs == [last_id |-> << >>, last_next |-> JStr(<< >>), edited |-> FALSE]

PipelineInit ==
    /\ ss = NewSession
    /\ ui = View(NewSession)
    /\ pc = "idle"
    /\ inflight = << >>
    /\ obs = NoObs

FunctionsIdle ==
    /\ up_in = << >> /\ up_out = NotCalled
    /\ api_in = << >> /\ api_out = NotCalled

Init == PipelineInit /\ FunctionsIdle

\* A script run that ends with st.rerun(), or that handled no click.
EndRerun(s) ==
    /\ ss' = Rendered(s)
    /\ ui' = View(s)
    /\ pc' = "idle"
    /\ inflight' = << >>

\* A script run that ends inside the handler: before the call (ui is the
\* sidebar of the state pre the click left) or after it (ui is kept).
EndStop(s, pre) ==
    /\ ss' = s
    /\ ui' = Stale(pre)
    /\ pc' = "idle"
    /\ inflight' = << >>

EndStopLater(s) ==
    /\ ss' = s
    /\ pc' = "idle"
    /\ inflight' = << >>
    /\ UNCHANGED ui

\* The handler blocks in a call of the generation service.
Block(s, pre, at, calls) ==
    /\ ss' = s
    /\ ui' = Stale(pre)
    /\ pc' = at
    /\ inflight' = calls

\* ---------------------------------------------------------------- sidebar
\* A stage button of the sidebar: on_click sets current_stage, then the
\* script runs.  The button is the one the last run rendered.
Navigate(k) ==
    /\ pc = "idle"
    /\ IF k = 1 THEN TRUE ELSE ~ui.disabled[k]
    /\ EndRerun([ss EXCEPT !.current_stage = k])
    /\ UNCHANGED <<obs, function_vars>>

\* "Clear All Data & Restart".
Reset ==
    /\ pc = "idle"
    /\ EndRerun(clear_all_session_data(ss))
    /\ obs' = NoObs
    /\ UNCHANGED function_vars

\* ------------------------------------------------------------------ calls
NoResult == [ret |-> JNone, raised |-> "", delivered |-> << >>]

\* A call of process_wordware_api that is submitted: the operation, the
\* inputs the properties read, and its result once it has returned.
Call(op, inputs) == [op |-> op, inputs |-> inputs, done |-> FALSE, res |-> NoResult]

\* ------------------------------------------------ stage 1: content processing
FileInput(url, name) ==
    JDict(<<KV("type", T("file")), KV("file_type", T("application/pdf")),
            KV("file_url", url), KV("file_name", name)>>)

UploadedFile(url, name) == JDict(<<KV("url", url), KV("name", name)>>)

\* result if isinstance(result, str) else list(result.values())[0]
FirstValue(result) ==
    IF IsStr(result) THEN [val |-> result, raised |-> ""]
    ELSE IF ~IsDict(result) THEN [val |-> JNone, raised |-> "AttributeError"]
    ELSE IF result.items = << >> THEN [val |-> JNone, raised |-> "IndexError"]
    ELSE [val |-> result.items[1].v, raised |-> ""]

\* "Process Source Documents" up to the submission of the jobs (lines
\* 302-332): the uploads, then the two compendio jobs and the brief job.
ProcessSourceDocuments(with_brief, replies, brief_replies) ==
    /\ pc = "idle"
    /\ ss.current_stage = 1
    /\ LET s1 == [ss EXCEPT !.stage_1_status = "in_progress"]
           compendio_url == upload_file_with_fallback(replies).url
           brief_url == IF with_brief THEN upload_file_with_fallback(brief_replies).url
                        ELSE JNone
           s2 == [s1 EXCEPT !.uploaded_files =
                      Put(@, "compendio", UploadedFile(compendio_url, T("compendio.pdf")))]
           s3 == IF Truthy(brief_url)
                 THEN [s2 EXCEPT !.uploaded_files =
                          Put(@, "project_brief", UploadedFile(brief_url, T("brief.pdf")))]
                 ELSE s2
           compendio_input == FileInput(compendio_url, T("compendio.pdf"))
           job == Call("compendio_to_markdown", JDict(<<KV("CompendioPDF", compendio_input)>>))
           brief_job == Call("project_brief_to_markdown",
                             JDict(<<KV("ProjectBriefPDF", FileInput(brief_url, T("brief.pdf")))>>))
       IN  IF ~Truthy(compendio_url)
           THEN EndStop([s1 EXCEPT !.stage_1_status = "error"], ss)
           ELSE Block(s3, ss, "stage_1_jobs",
                      <<job, job>> \o (IF Truthy(brief_url) THEN <<brief_job>> ELSE << >>))
    /\ UNCHANGED <<obs, function_vars>>

\* A worker that stores its result in the session state itself: the write
\* C35 rules out.
WorkerWrites(i, reply) ==
    /\ pc = "stage_1_jobs"
    /\ i \in 1..Len(inflight)
    /\ ~inflight[i].done
    /\ inflight' = [inflight EXCEPT ![i].done = TRUE,
                                    ![i].res = process_wordware_api(reply, FALSE)]
    /\ ss' = [ss EXCEPT !.stage_1_1_output = process_wordware_api(reply, FALSE).ret]
    /\ UNCHANGED <<ui, pc, obs, function_vars>>

\* A worker of the pool finishes its call of process_wordware_api.
WorkerReturns(i, reply) ==
    /\ pc = "stage_1_jobs"
    /\ i \in 1..Len(inflight)
    /\ ~inflight[i].done
    /\ inflight' = [inflight EXCEPT ![i].done = TRUE,
                                    ![i].res = process_wordware_api(reply, FALSE)]
    /\ UNCHANGED <<ss, ui, pc, obs, function_vars>>

\* The two parts the other way round: the order C11 rules out.
PartsSwapped(out1, out2) == JStr(out2.s \o <<"\n", "\n">> \o out1.s)

\* stage_1_1_output + "\n\n" + stage_1_2_output (line 353).
JoinParts(out1, out2) == JStr(out1.s \o <<"\n", "\n">> \o out2.s)

\* A pool that is left once the two compendio jobs are done, the brief
\* job still running: the short cut C28 rules out.
CompendioJobsDone == inflight[1].done /\ inflight[2].done

\* Leaving the with block of line 320 waits for every submitted job, also
\* when retrieving a result raised.
AllJobsDone == \A i \in 1..Len(inflight) : inflight[i].done

\* Lines 345-360 once every job of the pool has finished.
RetrieveResults ==
    /\ pc = "stage_1_jobs"
    /\ AllJobsDone
    /\ LET result1 == inflight[1].res
           result2 == inflight[2].res
           out1 == FirstValue(result1.ret)
           out2 == FirstValue(result2.ret)
           s1 == [ss EXCEPT !.stage_1_1_output = out1.val]
           s2 == [s1 EXCEPT !.stage_1_2_output = out2.val]
       IN  IF result1.raised # "" \/ out1.raised # "" THEN EndStopLater(ss)
           ELSE IF result2.raised # "" \/ out2.raised # "" THEN EndStopLater(s1)
           ELSE IF Truthy(out1.val) /\ Truthy(out2.val)
                THEN IF IsStr(out1.val) /\ IsStr(out2.val)
                     THEN EndRerun([s2 EXCEPT
                              !.compendio_md = JoinParts(out1.val, out2.val),
                              !.stage_1_status = "completed"])
                     ELSE EndStopLater(s2)    \* TypeError of +
                ELSE EndRerun([s2 EXCEPT !.stage_1_status = "error"])
    /\ UNCHANGED <<obs, function_vars>>

\* ------------------------------------------------- stage 2: reference mapping
SubStep(k) ==
    CASE k = 1 -> [op |-> "mapping_referencias", artifact |-> "mapping_referencias",
                   status |-> "stage_2_1_status"]
      [] k = 2 -> [op |-> "mapping_citas", artifact |-> "mapping_citas",
                   status |-> "stage_2_2_status"]
      [] k = 3 -> [op |-> "mapping_tablas", artifact |-> "mapping_tablas",
                   status |-> "stage_2_3_status"]
      [] k = 4 -> [op |-> "mapping_logic", artifact |-> "mapping_combined",
                   status |-> "stage_2_4_status"]

SubStepAt(k) ==
    CASE k = 1 -> "stage_2_1" [] k = 2 -> "stage_2_2" [] k = 3 -> "stage_2_3"
      [] k = 4 -> "stage_2_4"

\* The inputs of sub-step k that are no serialisation of an earlier result.
MappingInputs(s, k) ==
    IF k = 4 THEN JDict(<< >>)
    ELSE JDict(<<KV("compendio", s.compendio_md), KV("projectBrief", s.project_brief_md)>>)

\* "Start Reference Mapping" up to the call of sub-step 2.1.
StartReferenceMapping ==
    /\ pc = "idle"
    /\ ss.current_stage = 2
    /\ ss.stage_1_status = "completed"          \* the button is disabled otherwise
    /\ Block([ss EXCEPT !.stage_2_status = "in_progress"], ss, SubStepAt(1),
             <<Call(SubStep(1).op, MappingInputs(ss, 1))>>)
    /\ UNCHANGED <<obs, function_vars>>

\* A failure that also throws away what the stage holds: the effect C26
\* rules out.
FailAndDiscard(s) ==
    [s EXCEPT !.stage_2_status = "error",
              !.mapping_referencias = JStr(<< >>), !.stage_2_1_status = "pending"]

\* st.session_state.stage_2_status = 'error' (lines 399, 416, 434, 452).
FailSubStep(s) == [s EXCEPT !.stage_2_status = "error"]

\* A stage 2 that goes on to the next sub-step whatever the call returned:
\* the behaviour C27 rules out.
MappingGoesOn(k, reply) ==
    /\ pc = SubStepAt(k)
    /\     LET res == process_wordware_api(reply, FALSE)
               stored == [ss EXCEPT ![SubStep(k).artifact] = res.ret,
                                    ![SubStep(k).status] = "completed"]
           IN  IF k < 4
               THEN /\ ss' = stored
                    /\ pc' = SubStepAt(k + 1)
                    /\ inflight' = <<Call(SubStep(k + 1).op, MappingInputs(stored, k + 1))>>
                    /\ UNCHANGED ui
               ELSE EndRerun([stored EXCEPT !.stage_2_status = "completed"])
    /\ UNCHANGED <<obs, function_vars>>

\* The call of sub-step k returns (lines 393-401, 410-418, 428-436, 445-454).
MappingReturns(k, reply) ==
    /\ pc = SubStepAt(k)
    /\     LET res == process_wordware_api(reply, FALSE)
               stored == [ss EXCEPT ![SubStep(k).artifact] = res.ret,
                                    ![SubStep(k).status] = "completed"]
               failed == FailSubStep(ss)
           IN  IF res.raised # "" THEN EndStopLater(ss)
               ELSE IF Truthy(res.ret)
                    THEN IF k < 4
                         THEN /\ ss' = stored
                              /\ pc' = SubStepAt(k + 1)
                              /\ inflight' = <<Call(SubStep(k + 1).op, MappingInputs(stored, k + 1))>>
                              /\ UNCHANGED ui
                         ELSE EndRerun([stored EXCEPT !.stage_2_status = "completed"])
                    ELSE IF k < 4 THEN EndStopLater(failed) ELSE EndRerun(failed)
    /\ UNCHANGED <<obs, function_vars>>

\* ------------------------------------------------ stage 3: structure creation
DigitChar == <<"0", "1", "2", "3", "4", "5", "6", "7", "8", "9">>

\* str(n) for n >= 0.
RECURSIVE str(_)
str(n) == IF n < 10 THEN <<DigitChar[n + 1]>> ELSE str(n \div 10) \o <<DigitChar[(n % 10) + 1]>>

\* "capitulo_" + str(n)
ChapterName(n) == <<"capitulo_">> \o str(n)

\* What "for item in structure" iterates: the items of a list, the
\* characters of a string, the keys of a dict.
IterItems(structure) ==
    CASE IsList(structure) -> structure.items
      [] IsStr(structure) -> [i \in 1..Len(structure.s) |-> JStr(<<structure.s[i]>>)]
      [] IsDict(structure) -> [i \in 1..Len(structure.items) |-> JStr(<<structure.items[i].k>>)]
      [] OTHER -> << >>

\* not item.strip().startswith(('  ', '\t'))
IsMainTopic(item) ==
    ~(startswith(strip(item.s), <<" ", " ">>) \/ startswith(strip(item.s), <<"\t">>))

\* The loop of lines 524-529 over the items from i on.
RECURSIVE ChapterListFrom(_, _, _)
ChapterListFrom(items, i, chapter_list) ==
    IF i > Len(items) THEN chapter_list
    ELSE ChapterListFrom(items, i + 1,
             IF IsMainTopic(items[i])
             THEN Append(chapter_list, ChapterName(Len(chapter_list) + 1))
             ELSE chapter_list)

\* The try block of lines 520-531: the chapter list, or the exception.
ParseSkeleton(result) ==
    IF ~IsDict(result) THEN [raised |-> "AttributeError", chapter_list |-> << >>]
    ELSE LET maestro == Get(result, "EsqueletoMaestro", JDict(<< >>))
         IN  IF ~IsDict(maestro) THEN [raised |-> "AttributeError", chapter_list |-> << >>]
             ELSE LET logica == Get(maestro, "esqueletoLogica", JDict(<< >>))
                  IN  IF ~IsDict(logica) THEN [raised |-> "AttributeError", chapter_list |-> << >>]
                      ELSE LET structure == Get(logica, "estructura_capitulos", JList(<< >>))
                           IN  IF IsNone(structure)
                               THEN [raised |-> "TypeError", chapter_list |-> << >>]
                               ELSE IF \E i \in 1..Len(IterItems(structure)) :
                                           ~IsStr(IterItems(structure)[i])
                               THEN [raised |-> "AttributeError", chapter_list |-> << >>]
                               ELSE [raised |-> "",
                                     chapter_list |-> ChapterListFrom(IterItems(structure), 1, << >>)]

Topics == {JStr(<< >>), JStr(<<"T", "e", "m", "a">>)}

\* A form that takes any topics, the empty ones too: what C33 rules out.
NeverMissing(topic) == FALSE

\* not st.session_state.topic_input (line 493).
TopicsMissing(topic) == ~Truthy(topic)

\* "Generate Ebook Skeleton" up to the call (lines 492-512): the form
\* stores the topics; empty topics end the run.
GenerateSkeleton(topic) ==
    /\ pc = "idle"
    /\ ss.current_stage = 3
    /\ LET s0 == [ss EXCEPT !.topic_input = topic]
           inputs == JDict(<<KV("compendio", s0.compendio_md),
                             KV("projectBrief", s0.project_brief_md),
                             KV("topicInput", s0.topic_input),
                             KV("pageCount", s0.page_count)>>)
       IN  IF TopicsMissing(topic)
           THEN EndStop(s0, s0)
           ELSE Block([s0 EXCEPT !.stage_3_status = "in_progress"], s0, "stage_3_call",
                      <<Call("theme_selector", inputs)>>)
    /\ UNCHANGED <<obs, function_vars>>

\* The theme_selector call returns (lines 512-541).
SkeletonReturns(reply) ==
    /\ pc = "stage_3_call"
    /\     LET res == process_wordware_api(reply, TRUE)
               s1 == [ss EXCEPT !.skeleton = res.ret]
               parsed == ParseSkeleton(res.ret)
           IN  IF res.raised # "" THEN EndStopLater(ss)
               ELSE IF Truthy(res.ret)
                    THEN IF parsed.raised # ""
                         THEN EndRerun([s1 EXCEPT !.stage_3_status = "error"])
                         ELSE EndRerun([s1 EXCEPT !.chapter_sequence = parsed.chapter_list,
                                                  !.stage_3_status = "completed"])
                    ELSE EndRerun([ss EXCEPT !.stage_3_status = "error"])
    /\ UNCHANGED <<obs, function_vars>>

\* ------------------------------------------------ stage 4: chapter creation
\* len(text.split()): the number of maximal runs of tokens that are no
\* whitespace.
RECURSIVE WordCount(_, _)
WordCount(text, in_word) ==
    IF text = << >> THEN 0
    ELSE IF Head(text) \in Whitespace THEN WordCount(Tail(text), FALSE)
    ELSE (IF in_word THEN 0 ELSE 1) + WordCount(Tail(text), TRUE)

\* "Generate Capitulo N" up to the call (lines 1096-1109).
GenerateChapter ==
    /\ pc = "idle"
    /\ GenerateShown(ss)
    /\ LET s0 == Rendered(ss)
           current_chapter_id == PyIndex(s0.chapter_sequence, s0.current_chapter_index)
           s1 == [s0 EXCEPT !.stage_4_status = "in_progress"]
           inputs == JDict(<<KV("CompendioMd", s0.compendio_md),
                             KV("previous_context", s0.previous_context),
                             KV("capituloConstruir", JStr(current_chapter_id))>>)
       IN  IF ~IsDict(s0.skeleton)
           THEN EndStop(s1, ss)       \* skeleton.get raises AttributeError
           ELSE Block(s1, ss, "stage_4_call", <<Call("chapter_creator", inputs)>>)
    /\ UNCHANGED <<obs, function_vars>>

\* A sequencer that hands no context on: what C7 rules out.
NoContext(chapter_data) == JStr(<< >>)

\* chapter_data.get('resumen_para_siguiente', ''), the context handed to the
\* next chapter (line 1118).
NextContext(chapter_data) == Get(chapter_data, "resumen_para_siguiente", JStr(<< >>))

\* A cursor that jumps over a chapter: the advance C31 rules out.
SkipOne(index) == index + 2

\* st.session_state.current_chapter_index += 1 (line 1120).
AdvanceCursor(index) == index + 1

\* A completion that sets the flag and leaves the status: what C36 rules
\* out.
FlagOnly(s) == [s EXCEPT !.book_complete = TRUE]

\* The last chapter was generated (lines 1126-1127).
CompleteBook(s) == [s EXCEPT !.book_complete = TRUE, !.stage_4_status = "completed"]

\* The chapter_creator call returns (lines 1109-1136).
ChapterReturns(reply) ==
    /\ pc = "stage_4_call"
    /\     LET res == process_wordware_api(reply, TRUE)
               result == res.ret
               current_chapter_id == Get(inflight[1].inputs, "capituloConstruir", JNone).s
               total_chapters == Len(ss.chapter_sequence)
               generated_chapter == Get(result, "generatedChapter", JDict(<< >>))
               chapter_data == Get(generated_chapter, "chapterTitle", JDict(<< >>))
               failed == [ss EXCEPT !.stage_4_status = "error"]
               s1 == [ss EXCEPT !.generated_chapters = Put(@, current_chapter_id, chapter_data)]
               s2 == [s1 EXCEPT
                         !.previous_context = NextContext(chapter_data),
                         !.chapters_completed = Append(@, current_chapter_id),
                         !.current_chapter_index = AdvanceCursor(@)]
               s3 == IF s2.current_chapter_index >= total_chapters
                     THEN CompleteBook(s2)
                     ELSE s2
           IN  IF res.raised # "" THEN EndStopLater(ss) /\ UNCHANGED obs
               ELSE IF ~Truthy(result) THEN EndRerun(failed) /\ UNCHANGED obs
               ELSE IF ~IsDict(result) \/ ~IsDict(generated_chapter)
                    THEN EndStopLater(ss) /\ UNCHANGED obs      \* AttributeError of .get
               ELSE IF ~Truthy(chapter_data) THEN EndRerun(failed) /\ UNCHANGED obs
               ELSE IF ~IsDict(chapter_data)
                    THEN EndStopLater(s1) /\ UNCHANGED obs      \* AttributeError of .get
               ELSE /\ EndRerun(s3)
                    /\ obs' = [last_id |-> current_chapter_id,
                               last_next |-> IF HasKey(chapter_data, "resumen_para_siguiente")
                                             THEN Get(chapter_data, "resumen_para_siguiente", JNone)
                                             ELSE JStr(<< >>),
                               edited |-> FALSE]
    /\ UNCHANGED function_vars

ChapterIds(s) == {s.generated_chapters.items[i].k : i \in 1..Len(s.generated_chapters.items)}

\* "Edit Chapter" of a chapter of the review (lines 1181-1184).
EditChapter(chapter_id) ==
    /\ pc = "idle"
    /\ ui.review
    /\ chapter_id \in ChapterIds(ss)
    /\ chapter_id \notin ss.edit_modes
    /\ EndRerun([ss EXCEPT !.edit_modes = @ \cup {chapter_id}])
    /\ UNCHANGED <<obs, function_vars>>

EditedContents == {JStr(<<"a", " ", "b", "\n", "c">>)}
EditedSummaries == {JStr(<<"e", "1">>)}

\* A save that takes every chapter for the one generated last: what C32
\* rules out.
AnyChapterIsLast(s, chapter_id) == TRUE

\* chapter_id == chapter_sequence[current_chapter_index - 1] (line 1171).
IsLastGenerated(s, chapter_id) ==
    chapter_id = PyIndex(s.chapter_sequence, s.current_chapter_index - 1)

\* "Save Changes" of a chapter in edit mode (lines 1162-1180).
SaveChanges(chapter_id, edited_content, edited_summary) ==
    /\ pc = "idle"
    /\ ui.review
    /\ chapter_id \in ChapterIds(ss)
    /\ chapter_id \in ss.edit_modes
    /\ LET data == Get(ss.generated_chapters, chapter_id, JNone)
           d1 == Put(Put(data, "contenido_capitulo", edited_content),
                     "resumen_para_siguiente", edited_summary)
           s1 == [ss EXCEPT !.generated_chapters = Put(@, chapter_id, d1)]
           is_last == IsLastGenerated(ss, chapter_id)
           s2 == IF is_last THEN [s1 EXCEPT !.previous_context = edited_summary] ELSE s1
           word_count == JNum(str(WordCount(edited_content.s, FALSE)))
           s3 == [s2 EXCEPT
                     !.generated_chapters =
                         Put(@, chapter_id, Put(d1, "conteo_palabras", word_count)),
                     !.edit_modes = @ \ {chapter_id}]
       IN  IF ~IsDict(data) THEN EndStop(ss, ss) /\ UNCHANGED obs   \* TypeError
           ELSE IF ~InRange(ss.chapter_sequence, ss.current_chapter_index - 1)
                THEN EndStop(s1, ss) /\ UNCHANGED obs                 \* IndexError
           ELSE /\ EndRerun(s3)
                /\ obs' = IF chapter_id = obs.last_id THEN [obs EXCEPT !.edited = TRUE] ELSE obs
    /\ UNCHANGED function_vars

\* --------------------------------------------------- stage 5: final assembly
\* The order of the characters the chapter identifiers are made of.
Ord(tok) ==
    IF \E i \in 1..10 : DigitChar[i] = tok
    THEN CHOOSE i \in 1..10 : DigitChar[i] = tok
    ELSE 11

\* a < b for two strings, as Python compares them.
RECURSIVE StrLess(_, _)
StrLess(a, b) ==
    IF b = << >> THEN FALSE
    ELSE IF a = << >> THEN TRUE
    ELSE IF Head(a) = Head(b) THEN StrLess(Tail(a), Tail(b))
    ELSE Ord(Head(a)) < Ord(Head(b))

\* sorted(d.items()): the items by their keys.
RECURSIVE SortedItems(_)
SortedItems(items) ==
    IF items = << >> THEN << >>
    ELSE LET least == CHOOSE i \in 1..Len(items) :
                          \A j \in 1..Len(items) : ~StrLess(items[j].k, items[i].k)
             rest == [j \in 1..(Len(items) - 1) |-> IF j < least THEN items[j] ELSE items[j + 1]]
         IN  <<items[least]>> \o SortedItems(rest)

\* sep.join(texts)
RECURSIVE Join(_, _)
Join(sep, texts) ==
    IF texts = << >> THEN << >>
    ELSE IF Len(texts) = 1 THEN texts[1].s
    ELSE texts[1].s \o sep \o Join(sep, Tail(texts))

ChapterSeparator == <<"\n", "\n", "-", "-", "-", "\n", "\n">>

\* str(x) of a value that is no string.
PyStr(x) == IF IsStr(x) THEN x ELSE JStr(<<"str(", x.ty, ")">>)

\* "Assemble Final Ebook" up to the call (lines 1358-1372).
AssembleFinalEbook ==
    /\ pc = "idle"
    /\ ss.current_stage = 5
    /\ ss.book_complete
    /\ LET s1 == [ss EXCEPT !.stage_5_status = "in_progress"]
           chapters == SortedItems(ss.generated_chapters.items)
           contents == [i \in 1..Len(chapters) |->
                           Get(chapters[i].v, "contenido_capitulo", JStr(<< >>))]
           inputs == JDict(<<KV("GeneratedEbook", JStr(Join(ChapterSeparator, contents)))>>)
       IN  IF \/ \E i \in 1..Len(chapters) : ~IsDict(chapters[i].v)    \* AttributeError
              \/ \E i \in 1..Len(contents) : ~IsStr(contents[i])       \* TypeError of join
              \/ ~IsDict(ss.skeleton)                                   \* AttributeError
           THEN EndStop(s1, ss)
           ELSE Block(s1, ss, "stage_5_call", <<Call("table_generator", inputs)>>)
    /\ UNCHANGED <<obs, function_vars>>

\* Lines 1376-1386: the text kept of the answer.
FinalText(result) ==
    IF IsDict(result)
    THEN IF \E i \in 1..Len(result.items) : IsStr(result.items[i].v)
         THEN result.items[CHOOSE i \in 1..Len(result.items) :
                               /\ IsStr(result.items[i].v)
                               /\ \A j \in 1..(i - 1) : ~IsStr(result.items[j].v)].v
         ELSE PyStr(result)
    ELSE result

\* The table_generator call returns (lines 1372-1394).
EbookReturns(reply) ==
    /\ pc = "stage_5_call"
    /\     LET res == process_wordware_api(reply, TRUE)
           IN  IF res.raised # "" THEN EndStopLater(ss)
               ELSE IF Truthy(res.ret)
                    THEN EndRerun([ss EXCEPT !.final_ebook = FinalText(res.ret),
                                             !.stage_5_status = "completed"])
                    ELSE EndRerun([ss EXCEPT !.stage_5_status = "error"])
    /\ UNCHANGED <<obs, function_vars>>

\* ---------------------------------------------------------- the environment
\* The answers of the generation service the pipeline is checked on.  Every
\* request can fail: by its status, with no response at all, by a stream
\* that ends with no outputs event, by a stream that breaks off.
\* The sequences over the set S of at most n entries.
SeqsUpTo(S, n) == UNION {[1..k -> S] : k \in 0..n}

\* The streams that are read to their end and hold no outputs event: blank
\* lines, lines that are no JSON, chunk events.
DryRequests ==
    {Request("ok", lines) : lines \in SeqsUpTo({EmptyLine, TextLine, ChunkEvent(T("a"))}, MaxStreamLen)}

FailedRequests ==
    {Request("http_error", << >>), Request("no_response", << >>),
     Request("ok", <<ChunkEvent(T("a"))>>),
     Request("stream_lost", <<ChunkEvent(T("a"))>>)}

\* A stream of one chunk and the terminal event with the given values.
Answer(values) == Request("ok", <<ChunkEvent(T("a")), OutputsEvent(values)>>)

CompendioAnswer == Answer(JDict(<<KV("output", T("part1"))>>))
MappingAnswer == Answer(JDict(<<KV("Merger", JDict(<<KV("output", T("m"))>>))>>))
TextAnswer == Answer(JDict(<<KV("output", T("texto"))>>))
EbookAnswer == Answer(JDict(<<KV("toc", JList(<< >>)), KV("libro", T("ebook"))>>))

\* A skeleton whose estructura_capitulos is the list descriptors.
SkeletonOf(descriptors) ==
    JDict(<<KV("EsqueletoMaestro",
               JDict(<<KV("esqueletoLogica",
                          JDict(<<KV("estructura_capitulos", JList(descriptors))>>))>>))>>)

TopLevel == JStr(<<"T", "e", "m", "a", " ", "|", " ", "s", "u", "b">>)
Indented == JStr(<<" ", " ", "s", "u", "b", "t", "e", "m", "a">>)

\* The descriptor lists of the skeletons of at most max entries: main
\* topics only, and, from two entries on, a main topic followed by
\* indented subtopics.
DescriptorLists(max) ==
    {[i \in 1..n |-> TopLevel] : n \in 0..max} \cup
    {[i \in 1..n |-> IF i = 1 THEN TopLevel ELSE Indented] : n \in 2..max}

SkeletonReplies(max) ==
    FailedRequests \cup {TextAnswer} \cup {Answer(SkeletonOf(d)) : d \in DescriptorLists(max)}

\* The chapterTitle object of a chapter_creator answer.
ChapterData(summary) ==
    JDict(<<KV("chapterTitle", T("Titulo")),
            KV("contenido_capitulo", JStr(<<"uno", " ", "dos">>)),
            KV("conteo_palabras", JNum(<<"2">>))>> \o summary)

ChapterAnswer(summary) ==
    Answer(JDict(<<KV("generatedChapter", JDict(<<KV("chapterTitle", ChapterData(summary))>>))>>))

\* Answers of chapter_creator that hold no chapter: a text, and a mapping
\* with no generatedChapter.chapterTitle.
MalformedChapters ==
    {TextAnswer, Answer(JDict(<<KV("generatedChapter", JDict(<<KV("other", T("x"))>>))>>))}

ChapterReplies ==
    FailedRequests \cup MalformedChapters \cup
    {ChapterAnswer(<< >>), ChapterAnswer(<<KV("resumen_para_siguiente", T("r2"))>>)}

\* The answers of the upload backends stage 1 is checked on: the first
\* backend is down, the second one serves the file or is down too, the
\* third one is down.
Down == Reply(TRUE, 0, << >>, JNone)
Served(host) ==
    Reply(FALSE, 200, <<"https://", host, "f.pdf", "\n">>,
          JDict(<<KV("data", JDict(<<KV("url", JStr(<<"https://", host, "f.pdf">>))>>))>>))
Backends(first, second, third) ==
    [upload_to_0x0 |-> first, upload_to_catbox |-> second, upload_to_tmpfiles |-> third]
SecondServes == Backends(Down, Served("catbox.moe/"), Down)
NoneServes == Backends(Down, Down, Down)
UploadReplies == {SecondServes, NoneServes}

\* ------------------------------------------------------------ the pipeline
\* All five stages, every call of the generation service failing or
\* answering, on skeletons of at most MaxTopics descriptors.
Next ==
    \/ \E k \in 1..5 : Navigate(k)
    \/ Reset
    \/ \E replies \in UploadReplies : ProcessSourceDocuments(FALSE, replies, replies)
    \/ \E i \in 1..Len(inflight), reply \in FailedRequests \cup {CompendioAnswer} :
           WorkerReturns(i, reply)
    \/ RetrieveResults
    \/ StartReferenceMapping
    \/ \E k \in 1..4, reply \in FailedRequests \cup {MappingAnswer} : MappingReturns(k, reply)
    \/ \E topic \in Topics : GenerateSkeleton(topic)
    \/ \E reply \in SkeletonReplies(MaxTopics) : SkeletonReturns(reply)
    \/ GenerateChapter
    \/ \E reply \in FailedRequests \cup MalformedChapters
                      \cup {ChapterAnswer(<<KV("resumen_para_siguiente", T("r1"))>>)} :
           ChapterReturns(reply)
    \/ AssembleFinalEbook
    \/ \E reply \in FailedRequests \cup {EbookAnswer} : EbookReturns(reply)

Spec == Init /\ [][Next]_vars

\* The chapter generation: stages 1 and 2 answer, stage 3 yields skeletons
\* of at most MaxChapters descriptors or fails, chapters are generated and
\* edited, one chapter at a time, and the run is reset.
NextChapters ==
    \/ \E k \in 1..4 : Navigate(k)
    \/ Reset
    \/ ProcessSourceDocuments(FALSE, SecondServes, NoneServes)
    \/ \E i \in 1..Len(inflight) : WorkerReturns(i, CompendioAnswer)
    \/ RetrieveResults
    \/ StartReferenceMapping
    \/ \E k \in 1..4 : MappingReturns(k, MappingAnswer)
    \/ \E topic \in Topics : GenerateSkeleton(topic)
    \/ \E reply \in SkeletonReplies(MaxChapters) : SkeletonReturns(reply)
    \/ GenerateChapter
    \/ \E reply \in ChapterReplies : ChapterReturns(reply)
    \/ \E n \in 1..MaxChapters : ss.edit_modes = {} /\ EditChapter(ChapterName(n))
    \/ \E n \in 1..MaxChapters, c \in EditedContents, r \in EditedSummaries :
           SaveChanges(ChapterName(n), c, r)

SpecChapters == Init /\ [][NextChapters]_vars

\* ------------------------------------- upload_file_with_fallback on its own
Host == [upload_to_0x0 |-> "0x0.st/", upload_to_catbox |-> "catbox.moe/",
         upload_to_tmpfiles |-> "tmpfiles.org/"]

\* What a backend can answer: nothing (the request raises), its success
\* with another status, its success, a 200 with no URL in it, a 200 whose
\* body is a page.
BackendReplies(name) ==
    {Down,
     [Served(Host[name]) EXCEPT !.status = 500],
     Served(Host[name]),
     Reply(FALSE, 200, <<"error">>, JDict(<<KV("data", JDict(<< >>))>>)),
     Reply(FALSE, 200, <<"<html>">>, JNone)}

UploadInputs ==
    {Backends(a, b, c) : a \in BackendReplies("upload_to_0x0"),
                         b \in BackendReplies("upload_to_catbox"),
                         c \in BackendReplies("upload_to_tmpfiles")}

InitUpload ==
    /\ PipelineInit
    /\ up_in \in UploadInputs /\ up_out = NotCalled
    /\ api_in = << >> /\ api_out = NotCalled

CallUpload ==
    /\ ~up_out.called
    /\ up_out' = [called |-> TRUE, res |-> upload_file_with_fallback(up_in)]
    /\ UNCHANGED <<pipeline_vars, up_in, api_in, api_out>>

NextUpload == CallUpload

SpecUpload == InitUpload /\ [][NextUpload]_vars

\* ----------------------------------------- process_wordware_api on its own
\* The values mappings of an outputs event: every combination of the keys
\* output and text and of another key.
ValueCombos ==
    {JDict((IF o THEN <<KV("output", T("o"))>> ELSE << >>) \o
           (IF x THEN <<KV("other", T("x"))>> ELSE << >>) \o
           (IF tx THEN <<KV("text", T("t"))>> ELSE << >>)) : o \in BOOLEAN, tx \in BOOLEAN, x \in BOOLEAN}

\* The lines of a stream: blank, no JSON, no UTF-8, chunk events, outputs
\* events, and the JSON document {"value": null}.
StreamLines ==
    {EmptyLine, TextLine, BytesLine, ChunkEvent(T("a")), ChunkEvent(T("b")),
     JsonLine(JDict(<<KV("value", JNone)>>))} \cup {OutputsEvent(v) : v \in ValueCombos}

\* JSON documents that are neither a chunk nor an outputs event: an event
\* of another type, an object without the key value, {"value": null}, a
\* number, a string and an array.
OtherJsonLines ==
    {Event("log", "value", T("a")), JsonLine(JDict(<< >>)),
     JsonLine(JDict(<<KV("value", JNone)>>)),
     JsonLine(JNum(<<"7">>)), JsonLine(T("a")), JsonLine(JList(<< >>))}

Transports == {"ok", "http_error", "no_response", "stream_lost"}

ApiInputs ==
    {[req |-> Request(tr, lines), has_sink |-> sink] :
        tr \in Transports, lines \in SeqsUpTo(StreamLines, MaxStreamLen), sink \in BOOLEAN}

InitApi ==
    /\ PipelineInit
    /\ up_in = << >> /\ up_out = NotCalled
    /\ api_in \in ApiInputs /\ api_out = NotCalled

CallApi ==
    /\ ~api_out.called
    /\ api_out' = [called |-> TRUE, res |-> process_wordware_api(api_in.req, api_in.has_sink)]
    /\ UNCHANGED <<pipeline_vars, up_in, up_out, api_in>>

NextApi == CallApi

SpecApi == InitApi /\ [][NextApi]_vars

\* ------------------------------------------------------- stage 1 on its own
\* The upload backends stage 1 is checked on: the file is served by the
\* third backend after the first two failed, or by none.
Stage1Uploads == {Backends(Down, Down, Served("tmpfiles.org/")), NoneServes}

\* The answers of the extraction calls: a refused request, a connection
\* that never gave a response, a text (two different ones, and the empty
\* one), and values without output whose first value is a text.
Stage1Replies ==
    {Request("http_error", << >>), Request("no_response", << >>),
     Answer(JDict(<<KV("output", T("p1"))>>)),
     Answer(JDict(<<KV("output", T("p2"))>>)),
     Answer(JDict(<<KV("output", JStr(<< >>))>>)),
     Answer(JDict(<<KV("Doc", T("p1"))>>))}

NextStage1 ==
    \/ \E k \in 1..2 : Navigate(k)
    \/ Reset
    \/ \E with_brief \in BOOLEAN, replies \in Stage1Uploads, brief_replies \in {SecondServes, NoneServes} :
           ProcessSourceDocuments(with_brief, replies, brief_replies)
    \/ \E i \in 1..2, reply \in Stage1Replies : WorkerReturns(i, reply)
    \/ \E reply \in {Request("http_error", << >>), TextAnswer} : WorkerReturns(3, reply)
    \/ RetrieveResults

SpecStage1 == Init /\ [][NextStage1]_vars

\* A whole book: every stage is run once and answers, the skeleton lists
\* 1..MaxBook chapters, and the answer for a chapter holds a text that
\* names the chapter asked for.
ChapterOf(chapter_id) ==
    Answer(JDict(<<KV("generatedChapter",
                      JDict(<<KV("chapterTitle",
                                 JDict(<<KV("chapterTitle", JStr(chapter_id)),
                                         KV("contenido_capitulo",
                                            JStr(<<"Texto", " ", "de", " ">> \o chapter_id))>>))>>))>>))

NextBook ==
    \/ \E k \in 1..5 : Navigate(k)
    \/ ss.stage_1_status = "pending" /\ ProcessSourceDocuments(FALSE, SecondServes, NoneServes)
    \/ \E i \in 1..Len(inflight) : WorkerReturns(i, CompendioAnswer)
    \/ RetrieveResults
    \/ ss.stage_2_status = "pending" /\ StartReferenceMapping
    \/ \E k \in 1..4 : MappingReturns(k, MappingAnswer)
    \/ ss.stage_3_status = "pending" /\ GenerateSkeleton(JStr(<<"T", "e", "m", "a">>))
    \/ \E n \in 1..MaxBook : SkeletonReturns(Answer(SkeletonOf([i \in 1..n |-> TopLevel])))
    \/ GenerateChapter
    \/ /\ pc = "stage_4_call"
       /\ ChapterReturns(ChapterOf(Get(inflight[1].inputs, "capituloConstruir", JNone).s))
    \/ AssembleFinalEbook
    \/ EbookReturns(EbookAnswer)

SpecBook == Init /\ [][NextBook]_vars

\* ============================================================== properties
\* ---- C1
\* C1: a stage is set to in_progress only while its predecessor is
\* completed (stage 5: only while book_complete holds).  The handler that
\* sets the status then blocks in its first call with the session state
\* unchanged, so the statement is one about the states blocked in a call.
C1_PredecessorCompleted ==
    /\ pc = "stage_2_1" => ss.stage_1_status = "completed"
    /\ pc = "stage_3_call" => ss.stage_2_status = "completed"
    /\ pc = "stage_4_call" => ss.stage_3_status = "completed"
    /\ pc = "stage_5_call" => ss.book_complete

\* Stage 3 is in progress, in its call, and stage 2 has ended in error.
C1_Stage3OverFailedStage2 ==
    /\ pc = "stage_3_call"
    /\ ss.stage_3_status = "in_progress"
    /\ ss.stage_2_status = "error"

\* ---- C2
BackendOrder == <<"upload_to_0x0", "upload_to_catbox", "upload_to_tmpfiles">>

\* The backend of service name serves the file.
Serves(name) == up_in[name] = Served(Host[name])

\* The URL the caller gets of a backend that serves the file (tmpfiles.org
\* serves a page, the function returns the download link).
UrlServed(name) ==
    IF name = "upload_to_tmpfiles"
    THEN JStr(<<"https://", "tmpfiles.org/", "dl/", "f.pdf">>)
    ELSE JStr(<<"https://", Host[name], "f.pdf">>)

\* C2: the backends are tried in the order 0x0, catbox, tmpfiles; the URL
\* returned is that of the first backend that serves the file and no
\* backend after it is invoked; if none serves it, all were tried and no
\* URL is returned.
C2_FirstBackendThatServes ==
    up_out.called =>
        /\ \A i \in 1..3 :
               (Serves(BackendOrder[i]) /\ \A j \in 1..(i - 1) : ~Serves(BackendOrder[j]))
               => /\ up_out.res.url = UrlServed(BackendOrder[i])
                  /\ up_out.res.invoked = SubSeq(BackendOrder, 1, i)
        /\ (\A i \in 1..3 : ~Serves(BackendOrder[i]))
               => /\ up_out.res.url = JNone
                  /\ up_out.res.invoked = BackendOrder

\* The first backend is down, the second and the third would serve the
\* file: the second one's URL is returned and the third was not invoked.
C2_SecondServes ==
    /\ up_out.called
    /\ up_in = Backends(Down, Served("catbox.moe/"), Served("tmpfiles.org/"))
    /\ up_out.res.url = JStr(<<"https://", "catbox.moe/", "f.pdf">>)
    /\ up_out.res.invoked = <<"upload_to_0x0", "upload_to_catbox">>

\* ---- C3
\* line is the event {"value": {"type": type, ...}}.
IsEvent(line, type) ==
    /\ line.kind = "json"
    /\ IsDict(line.content)
    /\ IsDict(Get(line.content, "value", JNone))
    /\ Get(Get(line.content, "value", JNone), "type", JNone) = JStr(<<type>>)

\* The request was answered by a stream read to its end, made of blank
\* lines, lines that are no JSON, chunk events and outputs events.
StreamOfEvents(req) ==
    /\ req.transport = "ok"
    /\ \A i \in 1..Len(req.lines) :
           \/ req.lines[i].kind \in {"empty", "text"}
           \/ IsEvent(req.lines[i], "chunk")
           \/ IsEvent(req.lines[i], "outputs")

EventsOf(lines, type) == SelectSeq(lines, LAMBDA line : IsEvent(line, type))

\* The values of the chunk events of the stream, in its order.
ChunkValues(lines) ==
    [i \in 1..Len(EventsOf(lines, "chunk")) |->
        Get(Get(EventsOf(lines, "chunk")[i].content, "value", JNone), "value", JNone)]

\* C3: called with a sink on a stream of N chunk events and an outputs
\* event, the sink receives exactly the N chunk values, in the order of the
\* stream (and no sink receives nothing).
C3_ChunksInOrder ==
    (api_out.called /\ StreamOfEvents(api_in.req) /\ EventsOf(api_in.req.lines, "outputs") # << >>)
    => /\ api_out.res.raised = ""
       /\ api_out.res.delivered =
              IF api_in.has_sink THEN ChunkValues(api_in.req.lines) ELSE << >>

\* Two different chunks, then the outputs event: both were delivered, in
\* their order.
C3_TwoChunksDelivered ==
    /\ api_out.called
    /\ api_in.has_sink
    /\ api_in.req = Request("ok", <<ChunkEvent(T("a")), ChunkEvent(T("b")),
                                    OutputsEvent(JDict(<<KV("output", T("o"))>>))>>)
    /\ api_out.res.delivered = <<T("a"), T("b")>>

\* ---- C4
\* The values of the last outputs event of the stream.
LastValues(lines) ==
    Get(Get(EventsOf(lines, "outputs")[Len(EventsOf(lines, "outputs"))].content, "value", JNone),
        "values", JNone)

C5_NoOutputsIsFailure ==
    [][/\ \A req \in DryRequests :
              /\ process_wordware_api(req, TRUE).ret = JNone
              /\ process_wordware_api(req, TRUE).raised = ""
              /\ process_wordware_api(req, FALSE).ret = JNone
              /\ process_wordware_api(req, FALSE).raised = ""
       /\ (RetrieveResults /\ \E i \in 1..2, req \in DryRequests :
                                  inflight[i].res = process_wordware_api(req, FALSE))
              => ss'.stage_1_status = "error"
       /\ \A req \in DryRequests :
              /\ \A k \in 1..4 : MappingReturns(k, req) => ss'.stage_2_status = "error"
              /\ SkeletonReturns(req) => ss'.stage_3_status = "error"
              /\ ChapterReturns(req) => ss'.stage_4_status = "error"
              /\ EbookReturns(req) => ss'.stage_5_status = "error"]_vars

\* ---- C6
\* C6: when book_complete becomes true, every chapter of chapter_sequence
\* having been generated, chapters_completed is chapter_sequence: the same
\* identifiers in the same order, none twice.
C6_CompletedIsSequence ==
    [][(~ss.book_complete /\ ss'.book_complete)
       => ss'.chapters_completed = ss'.chapter_sequence]_vars

\* The book of one chapter is complete and the chapter is listed twice.
C6_ChapterListedTwice ==
    /\ ss.book_complete
    /\ ss.chapter_sequence = <<ChapterName(1)>>
    /\ ss.chapters_completed = <<ChapterName(1), ChapterName(1)>>

\* ---- C7
\* C7: the previous_context sent with the call for a chapter is the
\* resumen_para_siguiente the last successful call returned ("" when it
\* returned none), unless the chapter of that call was edited since.
C7_ContextHandedOn ==
    (pc = "stage_4_call" /\ obs.last_id # << >> /\ ~obs.edited)
    => Get(inflight[1].inputs, "previous_context", JNone) = obs.last_next

\* The call for the second chapter is in flight with the summary the first
\* chapter's call returned.
C7_SecondChapterCall ==
    /\ pc = "stage_4_call"
    /\ obs.last_id = ChapterName(1)
    /\ ~obs.edited
    /\ obs.last_next = T("r2")
    /\ Get(inflight[1].inputs, "capituloConstruir", JNone) = JStr(ChapterName(2))
    /\ Get(inflight[1].inputs, "previous_context", JNone) = T("r2")

\* ---- C8
\* C8: a chapter_creator call that fails, or whose answer holds no
\* generatedChapter.chapterTitle, sets stage_4_status to error and leaves
\* the cursor, the chapters, the context and book_complete as they were.
C8_FailureKeepsCursor ==
    [][\A reply \in FailedRequests \cup MalformedChapters :
           ChapterReturns(reply)
           => /\ ss'.stage_4_status = "error"
              /\ ss'.current_chapter_index = ss.current_chapter_index
              /\ ss'.chapters_completed = ss.chapters_completed
              /\ ss'.generated_chapters = ss.generated_chapters
              /\ ss'.previous_context = ss.previous_context
              /\ ss'.book_complete = ss.book_complete]_vars

\* ---- C9
StatusKeys ==
    {"stage_1_status", "stage_2_status", "stage_3_status", "stage_4_status", "stage_5_status",
     "stage_2_1_status", "stage_2_2_status", "stage_2_3_status", "stage_2_4_status"}

\* C9: after a reset the five stage statuses and the four sub-step
\* statuses are pending and compendio_md, skeleton, generated_chapters and
\* final_ebook are empty.
C9_ResetClearsStages ==
    [][Reset => /\ \A k \in StatusKeys : ss'[k] = "pending"
                /\ ss'.compendio_md = JStr(<< >>)
                /\ ss'.skeleton = JDict(<< >>)
                /\ ss'.generated_chapters = JDict(<< >>)
                /\ ss'.final_ebook = JStr(<< >>)]_vars

\* A run that had generated a chapter has been reset.
C9_ResetAfterChapters ==
    /\ pc = "idle"
    /\ ss.chapters_completed # << >>
    /\ ss.generated_chapters = JDict(<< >>)
    /\ \A k \in StatusKeys : ss[k] = "pending"

\* ---- C10
\* C10: a reset returns every field of the run to its default.
C10_ResetRestoresDefaults ==
    [][Reset => \A k \in DOMAIN defaults : ss'[k] = defaults[k]]_vars

\* A reset has left chapters_completed as the run before it wrote it.
C10_CompletedSurvivesReset ==
    /\ ss.chapters_completed # << >>
    /\ ss.current_chapter_index = 0
    /\ ss.chapter_sequence = << >>
    /\ ~ss.book_complete

\* ---- C11
\* C11: when the two extraction calls of stage 1 have returned the
\* non-empty texts p1 (first job submitted) and p2 (second job), the
\* handler stores p1, a blank line, p2 as compendio_md and sets
\* stage_1_status to completed.
C11_CompendioIsP1ThenP2 ==
    [][(/\ RetrieveResults
        /\ \A i \in 1..2 : /\ inflight[i].res.raised = ""
                           /\ inflight[i].res.ret.ty = "str"
                           /\ inflight[i].res.ret.s # << >>)
       => /\ ss'.compendio_md.s =
                 inflight[1].res.ret.s \o <<"\n", "\n">> \o inflight[2].res.ret.s
          /\ ss'.stage_1_status = "completed"]_vars

\* Stage 1 is completed from the texts p1 and p2, the file having been
\* served by the third backend.
C11_P1ThenP2Stored ==
    /\ ss.stage_1_status = "completed"
    /\ ss.stage_1_1_output = T("p1")
    /\ ss.stage_1_2_output = T("p2")
    /\ ss.compendio_md = JStr(<<"p1", "\n", "\n", "p2">>)
    /\ Get(Get(ss.uploaded_files, "compendio", JNone), "url", JNone)
           = JStr(<<"https://", "tmpfiles.org/", "dl/", "f.pdf">>)

\* ---- C12
\* C12: a stage whose generation call failed ends with status error: once
\* the handler is over (the script waits for the next interaction) no
\* stage status is left in_progress.
C12_NeverLeftInProgress ==
    pc = "idle" => \A k \in StatusKeys : ss[k] # "in_progress"

\* ---- C13
\* C13: for every kind of transport failure (a non-2xx status, no response
\* at all, the connection lost while the stream is read)
\* process_wordware_api returns the failure result (None) and no exception
\* leaves it.
C13_TransportFailureReturnsNone ==
    (api_out.called /\ api_in.req.transport # "ok")
        => (api_out.res.ret = JNone /\ api_out.res.raised = "")

\* The call was made on a connection that gave no response.
C13_NoResponseCalled ==
    api_out.called /\ api_in.req.transport = "no_response"

\* ---- C14
\* C14: when no backend serves a document handed to stage 1 (the compendio,
\* or the brief when there is one), upload_file_with_fallback returns no
\* URL and the run of stage 1 submits no extraction job.
C14_ExhaustedUploadStopsStage1 ==
    [][\A with_brief \in BOOLEAN, replies \in Stage1Uploads, brief_replies \in {SecondServes, NoneServes} :
          (/\ ProcessSourceDocuments(with_brief, replies, brief_replies)
           /\ \/ replies = NoneServes
              \/ with_brief /\ brief_replies = NoneServes)
          => /\ upload_file_with_fallback(NoneServes).url = JNone
             /\ inflight' = << >>
             /\ pc' = "idle"]_vars

\* ---- C15
\* C15: a run of stage 2 calls references first; when the call of sub-step
\* k returns a usable result the next call is the one of sub-step k + 1,
\* and when it fails stage_2_status becomes error and the run ends without
\* a further call.
C15_SubStepsInOrder ==
    [][/\ StartReferenceMapping
            => (Len(inflight') = 1 /\ inflight'[1].op = "mapping_referencias")
       /\ \A k \in 1..4, reply \in FailedRequests \cup {MappingAnswer} :
             MappingReturns(k, reply)
             => LET res == process_wordware_api(reply, FALSE)
                IN  IF res.raised = "" /\ Truthy(res.ret)
                    THEN k < 4 => /\ Len(inflight') = 1
                                  /\ inflight'[1].op = SubStep(k + 1).op
                                  /\ pc' = SubStepAt(k + 1)
                    ELSE /\ ss'.stage_2_status = "error"
                         /\ inflight' = << >>
                         /\ pc' = "idle"]_vars

\* ---- C16
\* C16: once a chapter sequence exists, book_complete is true exactly when
\* as many chapters are completed as the sequence lists.
C16_CompleteIffAllChapters ==
    ss.chapter_sequence # << >>
        => (ss.book_complete <=> Len(ss.chapters_completed) = Len(ss.chapter_sequence))

\* ---- C17
\* The descriptors of the stored skeleton (none when the skeleton holds no
\* estructura_capitulos list).
StoredDescriptors ==
    LET maestro == IF IsDict(ss.skeleton) THEN Get(ss.skeleton, "EsqueletoMaestro", JNone) ELSE JNone
        logica == IF IsDict(maestro) THEN Get(maestro, "esqueletoLogica", JNone) ELSE JNone
        structure == IF IsDict(logica) THEN Get(logica, "estructura_capitulos", JNone) ELSE JNone
    IN  IF IsList(structure) THEN structure.items ELSE << >>

\* A descriptor that begins with neither two spaces nor a tab.
IsTopLevel(item) ==
    IsStr(item) /\ ~(startswith(item.s, <<" ", " ">>) \/ startswith(item.s, <<"\t">>))

\* C17: chapter_sequence has as many entries as the stored skeleton has
\* top-level descriptors; indented subtopics are not counted.
C17_SequenceCountsTopLevel ==
    Len(ss.chapter_sequence)
        = Cardinality({i \in 1..Len(StoredDescriptors) : IsTopLevel(StoredDescriptors[i])})

\* ---- C18
\* C18: a chapter sequence that stage 3 derived is changed by no step other
\* than the reset.
C18_SequenceImmutable ==
    [][(ss.chapter_sequence # << >> /\ ~Reset)
           => ss'.chapter_sequence = ss.chapter_sequence]_vars

\* ---- C19
StageKeys ==
    {"stage_1_status", "stage_2_status", "stage_3_status", "stage_4_status", "stage_5_status"}

\* C19: between two script runs a stage status changes only along
\* pending -> in_progress -> {completed, error} (a handler that starts from
\* pending may end in any of the three), from error back to pending, or to
\* pending by the reset: in_progress is not entered from completed or
\* error, and completed is left only by the reset.
C19_StatusMachine ==
    [][\A k \in StageKeys :
          ss'[k] # ss[k]
          => \/ Reset /\ ss'[k] = "pending"
             \/ ss[k] = "pending" /\ ss'[k] \in {"in_progress", "completed", "error"}
             \/ ss[k] = "in_progress" /\ ss'[k] \in {"completed", "error"}
             \/ ss[k] = "error" /\ ss'[k] = "pending"]_vars

\* ---- C20
\* C20: current_chapter_index is the number of completed chapters, and the
\* chapters stored in generated_chapters are the completed ones.
C20_CursorCountsCompleted ==
    /\ ss.current_chapter_index = Len(ss.chapters_completed)
    /\ ChapterIds(ss) = {ss.chapters_completed[i] : i \in 1..Len(ss.chapters_completed)}

\* ---- C21
\* C21: whenever the page of stage 4 is rendered with a non-empty
\* chapter_sequence and book_complete false, current_chapter_index is a
\* position of chapter_sequence and no more chapters are completed than
\* the sequence lists.
C21_CursorInRange ==
    (/\ pc = "idle"
     /\ ss.current_stage = 4
     /\ ss.chapter_sequence # << >>
     /\ ~ss.book_complete)
    => /\ 0 <= ss.current_chapter_index
       /\ ss.current_chapter_index < Len(ss.chapter_sequence)
       /\ Len(ss.chapters_completed) <= Len(ss.chapter_sequence)

\* ---- C22
\* C22: on a stream with more than one outputs event the value returned is
\* the one the last outputs event alone gives, whatever the earlier ones
\* held, and every chunk event, also one that follows an outputs event, is
\* delivered to the sink.
C22_LastOutputsEventWins ==
    (/\ api_out.called
     /\ StreamOfEvents(api_in.req)
     /\ Len(EventsOf(api_in.req.lines, "outputs")) >= 2)
    => LET outs == EventsOf(api_in.req.lines, "outputs")
       IN  /\ api_out.res.raised = ""
           /\ api_out.res.ret
                  = process_wordware_api(Request("ok", <<outs[Len(outs)]>>), api_in.has_sink).ret
           /\ api_out.res.delivered =
                  IF api_in.has_sink THEN ChunkValues(api_in.req.lines) ELSE << >>

\* An outputs event with output, a chunk, an outputs event with text: the
\* text was returned and the chunk delivered.
C22_TextOfSecondEvent ==
    /\ api_out.called
    /\ api_in.has_sink
    /\ api_in.req = Request("ok", <<OutputsEvent(JDict(<<KV("output", T("o"))>>)),
                                    OutputsEvent(JDict(<<KV("text", T("t"))>>)),
                                    ChunkEvent(T("a"))>>)
    /\ api_out.res.ret = T("t")
    /\ api_out.res.delivered = <<T("a")>>

\* ---- C23
\* The stream without its blank lines and without the lines that are no
\* JSON document.
Parseable(lines) == SelectSeq(lines, LAMBDA line : line.kind = "json")

\* C23: blank lines and lines that do not parse as JSON are skipped: the
\* call returns, and delivers to the sink, what it does on the stream
\* without them.
C23_UnparseableLinesSkipped ==
    (api_out.called /\ api_in.req.transport = "ok")
    => api_out.res = process_wordware_api(Request("ok", Parseable(api_in.req.lines)),
                                          api_in.has_sink)

\* The call was made on a stream with a line that is no UTF-8 text between
\* a chunk event and an outputs event.
C23_BytesLineRead ==
    /\ api_out.called
    /\ api_in.req = Request("ok", <<ChunkEvent(T("a")), BytesLine,
                                    OutputsEvent(JDict(<<KV("output", T("o"))>>))>>)

\* ---- C24
\* lines with line put in after its first p lines.
InsertLine(lines, p, line) == SubSeq(lines, 1, p) \o <<line>> \o SubSeq(lines, p + 1, Len(lines))

\* C24: a line that is valid JSON but neither a chunk nor an outputs event
\* is ignored: put in anywhere in the stream, it changes nothing of what
\* the call returns, raises and delivers.
C24_OtherJsonIgnored ==
    (api_out.called /\ api_in.req.transport = "ok")
    => \A other \in OtherJsonLines, p \in 0..Len(api_in.req.lines) :
          process_wordware_api(Request("ok", InsertLine(api_in.req.lines, p, other)),
                               api_in.has_sink) = api_out.res

\* The call was made on a stream with the line {"value": null} before its
\* outputs event.
C24_NullValueRead ==
    /\ api_out.called
    /\ api_in.req = Request("ok", <<JsonLine(JDict(<<KV("value", JNone)>>)),
                                    OutputsEvent(JDict(<<KV("output", T("o"))>>))>>)
    /\ api_out.res.raised = "AttributeError"

KeptOutside(keys) == \A key \in DOMAIN ss \ keys : ss'[key] = ss[key]

\* The keys each stage writes: its status and its artifacts.
Stage1Keys ==
    {"stage_1_status", "uploaded_files", "stage_1_1_output", "stage_1_2_output", "compendio_md"}
Stage3Keys == {"stage_3_status", "skeleton"}

\* C26: a failure touches nothing outside the failed step.  A stage-2
\* sub-step that fails changes stage_2_status only (the artifacts and the
\* statuses of the sub-steps before it are kept), a failed stage 4 or 5
\* changes its own status only, and a failed stage 1 or 3 changes only
\* keys of its own.
C26_FailureKeepsTheRest ==
    [][/\ \A k \in 1..4, reply \in FailedRequests :
             MappingReturns(k, reply) => KeptOutside({"stage_2_status"})
       /\ (RetrieveResults /\ ss'.stage_1_status # "completed") => KeptOutside(Stage1Keys)
       /\ \A replies \in UploadReplies :
             (ProcessSourceDocuments(FALSE, replies, replies) /\ pc' = "idle")
             => KeptOutside({"stage_1_status"})
       /\ \A reply \in SkeletonReplies(MaxTopics) :
             (SkeletonReturns(reply) /\ ss'.stage_3_status # "completed")
             => KeptOutside(Stage3Keys)
       /\ \A reply \in FailedRequests \cup MalformedChapters :
             ChapterReturns(reply) => KeptOutside({"stage_4_status"})
       /\ \A reply \in FailedRequests :
             EbookReturns(reply) => KeptOutside({"stage_5_status"})]_vars

\* Sub-step 2.2 has failed after sub-step 2.1 succeeded: the references
\* and the status of sub-step 2.1 are there, with stage 1 completed.
C26_SecondSubStepFailed ==
    /\ pc = "idle"
    /\ ss.stage_2_status = "error"
    /\ ss.stage_2_1_status = "completed"
    /\ ss.stage_2_2_status = "pending"
    /\ Truthy(ss.mapping_referencias)
    /\ ss.stage_1_status = "completed"
    /\ Truthy(ss.compendio_md)

\* ---- C27
\* An artifact that holds something: not None and not empty.
Produced(v) == v \notin {JNone, JStr(<< >>), JDict(<< >>), JList(<< >>)}

\* C27: mapping_combined holds something only when the references, the
\* citations and the tables do, and the call of a sub-step is reached only
\* from the call of the sub-step before it, whose artifact is then stored:
\* the combine call is made with all three artifacts of the run.
C27_CombinedNeedsAllThree ==
    [][/\ Produced(ss'.mapping_combined)
            => /\ Produced(ss'.mapping_referencias)
               /\ Produced(ss'.mapping_citas)
               /\ Produced(ss'.mapping_tablas)
       /\ \A k \in 2..4 :
             (pc' = SubStepAt(k) /\ pc # SubStepAt(k))
             => /\ pc = SubStepAt(k - 1)
                /\ \A j \in 1..(k - 1) : /\ Produced(ss'[SubStep(j).artifact])
                                         /\ ss'[SubStep(j).status] = "completed"]_vars

\* The combine call is in flight.
C27_CombineCalled ==
    /\ pc = "stage_2_4"
    /\ Len(inflight) = 1
    /\ inflight[1].op = "mapping_logic"
    /\ Produced(ss.mapping_tablas)
    /\ ~Produced(ss.mapping_combined)

\* ---- C28
\* C28: the results of stage 1 are taken up only when every submitted job
\* (the two compendio jobs and the brief job, if any) has finished, whether
\* or not one of them failed; and when the status is then set to completed
\* or error, stage_1_1_output is the result of the first job submitted and
\* stage_1_2_output the one of the second.
C28_DecisionAfterAllJobs ==
    [][RetrieveResults
       => /\ \A i \in 1..Len(inflight) : inflight[i].done
          /\ (ss'.stage_1_status \in {"completed", "error"})
                 => /\ ss'.stage_1_1_output = FirstValue(inflight[1].res.ret).val
                    /\ ss'.stage_1_2_output = FirstValue(inflight[2].res.ret).val]_vars

\* Stage 1 is completed with a brief uploaded, the first job having
\* returned p2 and the second one p1.
C28_CompletedWithBrief ==
    /\ pc = "idle"
    /\ ss.stage_1_status = "completed"
    /\ HasKey(ss.uploaded_files, "project_brief")
    /\ ss.stage_1_1_output = T("p2")
    /\ ss.stage_1_2_output = T("p1")

\* ---- C29
\* C29: a click on Generate puts exactly one chapter_creator call in
\* flight, for the identifier at position current_chapter_index of
\* chapter_sequence, and every identifier before that position is the key
\* of a generated chapter and is listed as completed.
C29_ChaptersInSequence ==
    [][(GenerateChapter /\ pc' = "stage_4_call")
       => /\ Len(inflight') = 1
          /\ inflight'[1].op = "chapter_creator"
          /\ Get(inflight'[1].inputs, "capituloConstruir", JNone)
                 = JStr(ss.chapter_sequence[ss.current_chapter_index + 1])
          /\ \A j \in 1..ss.current_chapter_index :
                /\ ss.chapter_sequence[j] \in ChapterIds(ss)
                /\ \E c \in 1..Len(ss.chapters_completed) :
                       ss.chapters_completed[c] = ss.chapter_sequence[j]]_vars

\* The call for the second chapter is in flight, the first chapter being
\* generated.
C29_SecondAfterFirst ==
    /\ pc = "stage_4_call"
    /\ Len(inflight) = 1
    /\ ss.current_chapter_index = 1
    /\ Get(inflight[1].inputs, "capituloConstruir", JNone) = JStr(ChapterName(2))
    /\ ChapterName(1) \in ChapterIds(ss)

\* ---- C30
\* C30: while book_complete is true no chapter_creator call is issued, and
\* no step of the chapter generation changes current_chapter_index,
\* chapters_completed or previous_context.
C30_NoGenerationOnceComplete ==
    [][ss.book_complete
       => /\ pc' # "stage_4_call"
          /\ ~GenerateChapter
          /\ (\E reply \in ChapterReplies : ChapterReturns(reply))
                 => /\ ss'.current_chapter_index = ss.current_chapter_index
                    /\ ss'.chapters_completed = ss.chapters_completed
                    /\ ss'.previous_context = ss.previous_context]_vars

\* The page of stage 4 is shown for a complete book whose sequence, derived
\* again since, has an entry at current_chapter_index.
C30_CompleteWithChapterLeft ==
    /\ pc = "idle"
    /\ ss.current_stage = 4
    /\ ss.book_complete
    /\ ss.current_chapter_index < Len(ss.chapter_sequence)

\* ---- C31
\* C31: current_chapter_index changes only when a chapter_creator call
\* returns a chapter, which is then stored and listed as completed, and
\* then by exactly one; or by the reset, to 0.
C31_CursorAdvancesOnSuccess ==
    [][ss'.current_chapter_index # ss.current_chapter_index
       => \/ Reset /\ ss'.current_chapter_index = 0
          \/ /\ \E reply \in ChapterReplies : ChapterReturns(reply)
             /\ ss'.current_chapter_index = ss.current_chapter_index + 1
             /\ ss.chapter_sequence[ss.current_chapter_index + 1] \in ChapterIds(ss')
             /\ ss'.chapters_completed
                    = Append(ss.chapters_completed,
                             ss.chapter_sequence[ss.current_chapter_index + 1])]_vars

\* Two chapters have been generated: the cursor is 2.
C31_CursorAtTwo ==
    /\ ss.current_chapter_index = 2
    /\ ChapterIds(ss) = {ChapterName(1), ChapterName(2)}

\* ---- C32
\* C32: saving the edit of chapter c stores the edited content and summary
\* under c, with the word count of the edited content (three words for the
\* content "a b\nc"); previous_context becomes the edited summary when c is
\* the chapter generated last and is unchanged otherwise; the cursor, the
\* completed chapters, book_complete and every status are unchanged.
C32_SaveRewritesChapter ==
    [][\A c \in ChapterIds(ss), content \in EditedContents, summary \in EditedSummaries :
          SaveChanges(c, content, summary)
          => LET saved == Get(ss'.generated_chapters, c, JNone)
             IN  /\ Get(saved, "contenido_capitulo", JNone) = content
                 /\ Get(saved, "resumen_para_siguiente", JNone) = summary
                 /\ Get(saved, "conteo_palabras", JNone) = JNum(<<"3">>)
                 /\ ss'.previous_context
                        = IF c = obs.last_id THEN summary ELSE ss.previous_context
                 /\ ss'.current_chapter_index = ss.current_chapter_index
                 /\ ss'.chapters_completed = ss.chapters_completed
                 /\ ss'.book_complete = ss.book_complete
                 /\ \A k \in StatusKeys : ss'[k] = ss[k]]_vars

\* The edit of the first chapter was saved after the second chapter had
\* been generated: the context is still the one of the second chapter.
C32_FirstChapterEdited ==
    /\ ss.current_chapter_index = 2
    /\ Get(Get(ss.generated_chapters, ChapterName(1), JDict(<< >>)), "resumen_para_siguiente", JNone)
           = JStr(<<"e", "1">>)
    /\ ss.previous_context # JStr(<<"e", "1">>)
    /\ obs.last_id = ChapterName(2)

\* ---- C33
\* C33: the stage-3 form submitted with empty topics ends the run at once:
\* no call is in flight afterwards, and stage_3_status, skeleton and
\* chapter_sequence are what they were.
C33_EmptyTopicsRejected ==
    [][GenerateSkeleton(JStr(<< >>))
       => /\ pc' = "idle"
          /\ inflight' = << >>
          /\ ss'.stage_3_status = ss.stage_3_status
          /\ ss'.skeleton = ss.skeleton
          /\ ss'.chapter_sequence = ss.chapter_sequence]_vars

\* The form was submitted with empty topics after stage 3 had completed:
\* the stage is still completed, with its chapter sequence.
C33_EmptyAfterCompleted ==
    /\ pc = "idle"
    /\ ss.topic_input = JStr(<< >>)
    /\ ss.stage_3_status = "completed"
    /\ ss.chapter_sequence # << >>

\* ---- C34
\* The answer r is a failure: the request raised (a timeout too), the
\* status is not 200, or the 200 response holds no URL.
IsFailure(r) == r.exc \/ r.status # 200 \/ r.text \in {<<"error">>, <<"<html>">>}

\* C34: one call invokes each backend at most once and at most three in
\* all; after a backend that failed the next one is invoked, and after a
\* backend that did not fail none is; the call ends with a URL, or with no
\* URL when all three have failed.
C34_EachBackendOnce ==
    up_out.called
    => LET invoked == up_out.res.invoked
       IN  /\ Len(invoked) \in 1..3
           /\ \A i, j \in 1..Len(invoked) : invoked[i] = invoked[j] => i = j
           /\ \A i \in 1..Len(invoked) :
                 IF IsFailure(up_in[invoked[i]])
                 THEN IF i < 3 THEN Len(invoked) > i ELSE up_out.res.url = JNone
                 ELSE i = Len(invoked) /\ IsStr(up_out.res.url) /\ up_out.res.url.s # << >>
           /\ up_out.res.url = JNone => Len(invoked) = 3

\* The first backend raised, the second answered 500, the third answered
\* 200 without a URL: all three were invoked, once each, and no URL is
\* returned.
C34_ThreeWaysToFail ==
    /\ up_out.called
    /\ up_in = Backends(Down, [Served("catbox.moe/") EXCEPT !.status = 500],
                        Reply(FALSE, 200, <<"error">>, JDict(<<KV("data", JDict(<< >>))>>)))
    /\ up_out.res.url = JNone
    /\ up_out.res.invoked = <<"upload_to_0x0", "upload_to_catbox", "upload_to_tmpfiles">>

\* ---- C35
\* C35: while the jobs of stage 1 are in the pool the session state is
\* written by no worker: it changes only in the step of the handler that
\* takes up the results, and the handler ends only when every job has
\* finished.
C35_WorkersWriteNothing ==
    [][pc = "stage_1_jobs"
       => /\ (\E i \in 1..Len(inflight), reply \in Stage1Replies : WorkerReturns(i, reply))
                 => ss' = ss
          /\ ss' # ss => RetrieveResults
          /\ pc' # "stage_1_jobs" => \A i \in 1..Len(inflight) : inflight[i].done]_vars

\* The second compendio job has finished with a text while the first one
\* and the brief job are running: nothing of it is in the session state.
C35_OneWorkerDone ==
    /\ pc = "stage_1_jobs"
    /\ Len(inflight) = 3
    /\ ~inflight[1].done /\ inflight[2].done /\ ~inflight[3].done
    /\ inflight[2].res.ret = T("p2")
    /\ ss.stage_1_2_output # T("p2")
    /\ ss.stage_1_status = "in_progress"

\* ---- C36
\* C36: in every reachable state book_complete is true exactly when
\* stage_4_status is completed, also after a failed chapter, a failed
\* stage 3 re-run and a reset.
C36_CompleteIffStatus ==
    ss.book_complete <=> ss.stage_4_status = "completed"

\* The book was completed and a later re-run of stage 3 failed: both the
\* flag and the status of stage 4 are as the completion left them.
C36_CompletedThenStage3Failed ==
    /\ pc = "idle"
    /\ ss.book_complete
    /\ ss.stage_4_status = "completed"
    /\ ss.stage_3_status = "error"

\* ---- C37
SubStepsDone(s, n) == \A k \in 1..n : s[SubStep(k).status] = "completed"

\* C37: the statuses of the sub-steps of stage 2 agree with the status of
\* the stage: stage_2_status is completed only if the four sub-steps are,
\* sub-step k is completed only if every sub-step before it is, and
\* stage_2_4_status is completed only if stage_2_status is, a retry of the
\* stage included.
C37_SubStepsAgree ==
    /\ ss.stage_2_status = "completed" => SubStepsDone(ss, 4)
    /\ \A k \in 1..4 : ss[SubStep(k).status] = "completed" => SubStepsDone(ss, k - 1)
    /\ ss.stage_2_4_status = "completed" => ss.stage_2_status = "completed"

\* Stage 2 was completed and started again, and the retry failed: the last
\* sub-step still reports completed.
C37_RetryFailed ==
    /\ pc = "idle"
    /\ ss.stage_2_status = "error"
    /\ ss.stage_2_4_status = "completed"

\* ---- C38
\* C38: a stage whose status is completed holds its artifact: stage 1 a
\* non-empty compendio_md, stage 2 a non-empty mapping_combined, stage 3 a
\* non-empty skeleton, and stage 4 an entry of generated_chapters for every
\* identifier of chapter_sequence.
C38_CompletedHasArtifact ==
    /\ ss.stage_1_status = "completed" => Truthy(ss.compendio_md)
    /\ ss.stage_2_status = "completed" => Truthy(ss.mapping_combined)
    /\ ss.stage_3_status = "completed" => Truthy(ss.skeleton)
    /\ ss.stage_4_status = "completed"
           => \A i \in 1..Len(ss.chapter_sequence) : ss.chapter_sequence[i] \in ChapterIds(ss)

\* Stage 4 is completed and the sequence of a later skeleton lists a
\* chapter that was never generated.
C38_ChapterNeverGenerated ==
    /\ pc = "idle"
    /\ ss.stage_4_status = "completed"
    /\ ss.stage_3_status = "completed"
    /\ \E i \in 1..Len(ss.chapter_sequence) : ss.chapter_sequence[i] \notin ChapterIds(ss)

\* ---- C39
\* The contents of the chapters in the order of chapter_sequence, joined
\* as the assembly joins them.
InSequenceOrder(s) ==
    Join(ChapterSeparator,
         [i \in 1..Len(s.chapter_sequence) |->
             Get(Get(s.generated_chapters, s.chapter_sequence[i], JDict(<< >>)),
                 "contenido_capitulo", JStr(<< >>))])

\* C39: the GeneratedEbook sent by stage 5 is the concatenation of the
\* contents of the chapters in the order of chapter_sequence, capitulo_1
\* to capitulo_N, for every N, ten chapters and more included.
C39_EbookInSequenceOrder ==
    pc = "stage_5_call"
        => Get(inflight[1].inputs, "GeneratedEbook", JNone) = JStr(InSequenceOrder(ss))

\* The assembly of a book of ten chapters is under way.
C39_TenChapters ==
    /\ pc = "stage_5_call"
    /\ Len(ss.chapter_sequence) = 10
    /\ Len(ss.generated_chapters.items) = 10

\* ---- C40
\* The text a result of the brief job holds: the result itself, or the
\* first value of a mapping.
BriefTexts(result) == {result, FirstValue(result).val}

\* C40: when the brief was uploaded, its job returned a text and stage 1
\* completes, project_brief_md is that text.
C40_BriefIsStored ==
    [][(/\ RetrieveResults
        /\ Len(inflight) = 3
        /\ Truthy(inflight[3].res.ret)
        /\ ss'.stage_1_status = "completed")
           => ss'.project_brief_md \in BriefTexts(inflight[3].res.ret)]_vars

\* Stage 1 is completed after a run whose brief was uploaded, and
\* project_brief_md is empty.
C40_BriefUploadedAndEmpty ==
    /\ pc = "idle"
    /\ ss.stage_1_status = "completed"
    /\ HasKey(ss.uploaded_files, "project_brief")
    /\ ss.project_brief_md = JStr(<< >>)

====
